---- MODULE Spec2Model ----
(***************************************************************************)
(* Metadata extraction pipeline of Extract_Metadata_With_LLM.py (hosted    *)
(* backend, Together) and Extract_Metadata_With_LLM_ollama.py (local       *)
(* backend, Ollama).                                                       *)
(*                                                                         *)
(* Text is a sequence of atoms.  An atom is one punctuation or whitespace  *)
(* character, or a maximal run of letters/digits ("json", "PaperTitle")    *)
(* that no regular expression of the code splits.  Concatenating atoms     *)
(* gives the Python string.                                                *)
(***************************************************************************)
EXTENDS Integers, Sequences, FiniteSets, TLC

QUOTE == "\""
\* one backtick character (SANY reserves the character itself)
BT == "BACKTICK"
SP == " "
NL == "\n"
LBRACE == "{"
RBRACE == "}"
LBRACK == "["
RBRACK == "]"
COLON == ":"
COMMA == ","
DOT == "."

\* str.strip() and the regex class \s, restricted to the atoms in use
Whitespace == {SP, NL}

Digits == {"0", "1"}

-----------------------------------------------------------------------------
(* Python values produced by json.loads, as tagged records.                *)

PyStr(s) == [kind |-> "str", v |-> s]
PyNum(d) == [kind |-> "num", v |-> d]
PyTrue == [kind |-> "true", v |-> <<>>]
PyList(xs) == [kind |-> "list", v |-> xs]
\* items: sequence of <<key, value>>, keys distinct, in insertion order
PyDict(items) == [kind |-> "dict", v |-> items]

\* the empty-result sentinel: return {}
EmptyResult == PyDict(<<>>)

\* Python truthiness, as used by "if not metadata"
Truthy(m) ==
  CASE m.kind = "true" -> TRUE
    [] m.kind = "num" -> m.v # <<"0">>
    [] OTHER -> Len(m.v) > 0

\* dict[key] = value: a repeated key keeps its place and takes the new value
DictPut(items, k, val) ==
  IF \E i \in 1..Len(items) : items[i][1] = k
    THEN [i \in 1..Len(items) |-> IF items[i][1] = k THEN <<k, val>> ELSE items[i]]
    ELSE Append(items, <<k, val>>)

DictKeys(m) == {m.v[i][1] : i \in 1..Len(m.v)}

\* Python == on parsed values (dicts compare without order)
RECURSIVE ValEq(_, _)
ValEq(a, b) ==
  IF a.kind # b.kind THEN
    \/ a.kind = "true" /\ b.kind = "num" /\ b.v = <<"1">>
    \/ a.kind = "num" /\ b.kind = "true" /\ a.v = <<"1">>
  ELSE
    CASE a.kind \in {"str", "num"} -> a.v = b.v
      [] a.kind = "true" -> TRUE
      [] a.kind = "list" ->
           /\ Len(a.v) = Len(b.v)
           /\ \A i \in 1..Len(a.v) : ValEq(a.v[i], b.v[i])
      [] OTHER ->
           /\ Len(a.v) = Len(b.v)
           /\ \A i \in 1..Len(a.v) :
                \E j \in 1..Len(b.v) :
                  a.v[i][1] = b.v[j][1] /\ ValEq(a.v[i][2], b.v[j][2])

-----------------------------------------------------------------------------
(* json.loads (strict): whitespace, value, whitespace, end of text.        *)

SkipWs(s, i) ==
  CHOOSE j \in i..(Len(s) + 1) :
    /\ j = Len(s) + 1 \/ s[j] \notin Whitespace
    /\ \A k \in i..(j - 1) : s[k] \in Whitespace

ParseFail == [ok |-> FALSE, val |-> PyTrue, next |-> 0]

ParseOk(val, next) == [ok |-> TRUE, val |-> val, next |-> next]

At(s, i, ch) == i >= 1 /\ i <= Len(s) /\ s[i] = ch

\* a string literal: no raw control character (newline) inside
ParseString(s, i) ==
  IF ~At(s, i, QUOTE) \/ ~(\E j \in (i + 1)..Len(s) : s[j] = QUOTE) THEN ParseFail
  ELSE LET j == CHOOSE j \in (i + 1)..Len(s) :
                  s[j] = QUOTE /\ \A k \in (i + 1)..(j - 1) : s[k] # QUOTE
       IN IF \E k \in (i + 1)..(j - 1) : s[k] = NL THEN ParseFail
          ELSE ParseOk(PyStr(SubSeq(s, i + 1, j - 1)), j + 1)

\* -?(0|[1-9]\d*) over the digit atoms
ParseNumber(s, i) ==
  IF s[i] = "0" THEN ParseOk(PyNum(<<"0">>), i + 1)
  ELSE LET j == CHOOSE j \in (i + 1)..(Len(s) + 1) :
                  /\ j = Len(s) + 1 \/ s[j] \notin Digits
                  /\ \A k \in (i + 1)..(j - 1) : s[k] \in Digits
       IN ParseOk(PyNum(SubSeq(s, i, j - 1)), j)

RECURSIVE ParseValue(_, _), ParseMembers(_, _, _), ParseElements(_, _, _)

ParseValue(s, i) ==
  IF i < 1 \/ i > Len(s) THEN ParseFail
  ELSE CASE s[i] = QUOTE -> ParseString(s, i)
         [] s[i] = LBRACE ->
              LET j == SkipWs(s, i + 1)
              IN IF At(s, j, RBRACE) THEN ParseOk(PyDict(<<>>), j + 1)
                 ELSE ParseMembers(s, j, <<>>)
         [] s[i] = LBRACK ->
              LET j == SkipWs(s, i + 1)
              IN IF At(s, j, RBRACK) THEN ParseOk(PyList(<<>>), j + 1)
                 ELSE ParseElements(s, j, <<>>)
         [] s[i] = "true" -> ParseOk(PyTrue, i + 1)
         [] s[i] \in Digits -> ParseNumber(s, i)
         [] OTHER -> ParseFail

\* "key" : value, then "," or "}"
ParseMembers(s, i, acc) ==
  LET key == ParseString(s, i)
  IN IF ~key.ok THEN ParseFail
     ELSE LET c == SkipWs(s, key.next)
          IN IF ~At(s, c, COLON) THEN ParseFail
             ELSE LET val == ParseValue(s, SkipWs(s, c + 1))
                  IN IF ~val.ok THEN ParseFail
                     ELSE LET e == SkipWs(s, val.next)
                              items == DictPut(acc, key.val.v, val.val)
                          IN IF At(s, e, RBRACE) THEN ParseOk(PyDict(items), e + 1)
                             ELSE IF At(s, e, COMMA)
                               THEN ParseMembers(s, SkipWs(s, e + 1), items)
                               ELSE ParseFail

\* value, then "," or "]"
ParseElements(s, i, acc) ==
  LET val == ParseValue(s, i)
  IN IF ~val.ok THEN ParseFail
     ELSE LET e == SkipWs(s, val.next)
              xs == Append(acc, val.val)
          IN IF At(s, e, RBRACK) THEN ParseOk(PyList(xs), e + 1)
             ELSE IF At(s, e, COMMA)
               THEN ParseElements(s, SkipWs(s, e + 1), xs)
               ELSE ParseFail

\* json.loads(s): [ok, val]; ok = FALSE stands for json.JSONDecodeError
JsonLoads(s) ==
  LET r == ParseValue(s, SkipWs(s, 1))
  IN IF r.ok /\ SkipWs(s, r.next) = Len(s) + 1
       THEN [ok |-> TRUE, val |-> r.val]
       ELSE [ok |-> FALSE, val |-> PyTrue]

-----------------------------------------------------------------------------
(* json.dump(metadata, f, indent=2)                                        *)

Indent(level) == [i \in 1..(2 * level) |-> SP]

RECURSIVE JsonDump(_, _), DumpItems(_, _, _)

JsonDump(m, level) ==
  CASE m.kind = "str" -> <<QUOTE>> \o m.v \o <<QUOTE>>
    [] m.kind = "num" -> m.v
    [] m.kind = "true" -> <<"true">>
    [] m.kind = "list" ->
         IF Len(m.v) = 0 THEN <<LBRACK, RBRACK>>
         ELSE <<LBRACK>> \o DumpItems(m, 1, level + 1)
                \o <<NL>> \o Indent(level) \o <<RBRACK>>
    [] OTHER ->
         IF Len(m.v) = 0 THEN <<LBRACE, RBRACE>>
         ELSE <<LBRACE>> \o DumpItems(m, 1, level + 1)
                \o <<NL>> \o Indent(level) \o <<RBRACE>>

\* the items of a list or dict from the i-th on, one per line
DumpItems(m, i, level) ==
  IF i > Len(m.v) THEN <<>>
  ELSE (IF i > 1 THEN <<COMMA>> ELSE <<>>) \o <<NL>> \o Indent(level)
       \o (IF m.kind = "dict"
             THEN <<QUOTE>> \o m.v[i][1] \o <<QUOTE, COLON, SP>>
                    \o JsonDump(m.v[i][2], level)
             ELSE JsonDump(m.v[i], level))
       \o DumpItems(m, i + 1, level)

-----------------------------------------------------------------------------
(* String operations of extract_metadata.                                  *)

\* str.strip()
Strip(s) ==
  LET a == SkipWs(s, 1)
  IN IF a > Len(s) THEN <<>>
     ELSE LET b == CHOOSE b \in a..Len(s) :
                     /\ s[b] \notin Whitespace
                     /\ \A k \in (b + 1)..Len(s) : s[k] \in Whitespace
          IN SubSeq(s, a, b)

\* three backticks starting at i
FenceAt(s, i) == At(s, i, BT) /\ At(s, i + 1, BT) /\ At(s, i + 2, BT)

\* where r'```json\s*' matches
JsonFenceAt(s, m) == FenceAt(s, m) /\ At(s, m + 3, "json")

\* re.sub(r'```json\s*', '', s) from position i on: the text up to the
\* leftmost match, then the rest after the match
RECURSIVE SubJsonFence(_, _)
SubJsonFence(s, i) ==
  IF ~(\E m \in i..Len(s) : JsonFenceAt(s, m)) THEN SubSeq(s, i, Len(s))
  ELSE LET m == CHOOSE m \in i..Len(s) :
                  JsonFenceAt(s, m) /\ \A k \in i..(m - 1) : ~JsonFenceAt(s, k)
       IN SubSeq(s, i, m - 1) \o SubJsonFence(s, SkipWs(s, m + 4))

\* where r'\s*```' matches: a fence after any run of whitespace
SpacedFenceAt(s, m) == FenceAt(s, SkipWs(s, m))

\* re.sub(r'\s*```', '', s) from position i on
RECURSIVE SubFence(_, _)
SubFence(s, i) ==
  IF ~(\E m \in i..Len(s) : SpacedFenceAt(s, m)) THEN SubSeq(s, i, Len(s))
  ELSE LET m == CHOOSE m \in i..Len(s) :
                  SpacedFenceAt(s, m) /\ \A k \in i..(m - 1) : ~SpacedFenceAt(s, k)
       IN SubSeq(s, i, m - 1) \o SubFence(s, SkipWs(s, m) + 3)

\* step 4 of the local extract_metadata: both substitutions in order
CleanFences(s) == SubFence(SubJsonFence(s, 1), 1)

\* re.search(r'\{.*\}', s, re.DOTALL): first "{" to the last "}" after it
BraceSearch(s) ==
  IF \E a \in 1..Len(s) : s[a] = LBRACE /\ \E b \in (a + 1)..Len(s) : s[b] = RBRACE
    THEN LET a == CHOOSE a \in 1..Len(s) :
                    s[a] = LBRACE /\ \A k \in 1..(a - 1) : s[k] # LBRACE
             b == CHOOSE b \in 1..Len(s) :
                    s[b] = RBRACE /\ \A k \in (b + 1)..Len(s) : s[k] # RBRACE
         IN [found |-> TRUE, text |-> SubSeq(s, a, b)]
    ELSE [found |-> FALSE, text |-> <<>>]

-----------------------------------------------------------------------------
(* extract_metadata after the backend call: what it returns and prints.    *)

\* a console line: its message and, for "Raw response", the text printed
Line(msg, text) == [msg |-> msg, text |-> text]

Outcome(ret, lines) == [ret |-> ret, console |-> lines]

\* the call raised through every retry: the outer "except Exception"
ApiError == Outcome(EmptyResult, <<Line("Error calling API", <<>>)>>)

EmptyResponse == Outcome(EmptyResult, <<Line("Empty response from the model.", <<>>)>>)

\* hosted variant, response returned by chat_completion_with_backoff
HostedParse(resp) ==
  IF resp.shape \in {"none", "no_choices", "empty_choices"} THEN EmptyResponse
  ELSE IF resp.shape = "null_content" THEN ApiError   \* None.strip()
  ELSE LET response_content == Strip(resp.text)
       IN IF response_content = <<>> THEN EmptyResponse
          ELSE LET direct == JsonLoads(response_content)
               IN IF direct.ok THEN Outcome(direct.val, <<>>)
                  ELSE Outcome(EmptyResult,
                               <<Line("Failed to parse JSON", <<>>),
                                 Line("Raw response", response_content)>>)

\* local variant, text returned by ollama_completion_with_backoff
LocalParse(resp) ==
  LET stripped == Strip(resp.text)
  IN IF stripped = <<>> THEN EmptyResponse
     ELSE LET response_content == CleanFences(stripped)
              direct == JsonLoads(response_content)
              failed == <<Line("Failed to parse JSON", <<>>),
                          Line("Raw response", response_content)>>
              match == BraceSearch(response_content)
              inner == JsonLoads(match.text)
          IN IF direct.ok THEN Outcome(direct.val, <<>>)
             ELSE IF ~match.found THEN Outcome(EmptyResult, failed)
             ELSE IF inner.ok THEN Outcome(inner.val, failed)
             ELSE Outcome(EmptyResult,
                          Append(failed, Line("Failed to extract valid JSON", <<>>)))

\* extract_metadata from the point where the retry-wrapped call has ended
ExtractMetadata(v, call_state, resp) ==
  IF call_state = "raised" THEN ApiError
  ELSE IF v = "hosted" THEN HostedParse(resp)
  ELSE LocalParse(resp)

\* the guard forgotten: every result goes on to be saved
NotMetadataDropped(m) == FALSE

\* "if not metadata"
NotMetadata(m) == ~Truthy(m)

-----------------------------------------------------------------------------
(* File names.                                                             *)

LowerAtom(a) == IF a \in {"PDF", "Pdf"} THEN "pdf" ELSE a

\* str.lower()
Lower(name) == [i \in 1..Len(name) |-> LowerAtom(name[i])]

\* str.endswith
EndsWith(name, suffix) ==
  /\ Len(name) >= Len(suffix)
  /\ SubSeq(name, Len(name) - Len(suffix) + 1, Len(name)) = suffix

\* filename.lower().endswith('.pdf')
IsPdf(filename) == EndsWith(Lower(filename), <<DOT, "pdf">>)

\* Path(pdf_path).stem: the name up to its last dot, unless that dot leads or ends it
Stem(name) ==
  IF \E i \in 2..(Len(name) - 1) : name[i] = DOT
    THEN LET i == CHOOSE i \in 2..(Len(name) - 1) :
                    name[i] = DOT /\ \A k \in (i + 1)..(Len(name) - 1) : name[k] # DOT
         IN SubSeq(name, 1, i - 1)
    ELSE name

\* the extension kept: pdf_path + '.json'
OutputNameKeepsExt(name) == name \o <<DOT, "json">>

\* Path(pdf_path).stem + '.json'
OutputName(name) == Stem(name) \o <<DOT, "json">>

-----------------------------------------------------------------------------
(* Inputs: the directory listing and what the backend may answer.          *)

\* longest directory listing explored
MaxFiles == 3

\* stop_after_attempt(10)
MaxAttemptNumber == 10

Variants == {"hosted", "local"}

\* pdf_path of the main script, without its directory
MainPdf == <<"1706", DOT, "03762v7", DOT, "pdf">>

FileNames == {MainPdf, <<"a", DOT, "pdf">>, <<"a", DOT, "PDF">>, <<"notes", DOT, "txt">>}

\* os.listdir: distinct names in any order
RECURSIVE ListingsOf(_)
ListingsOf(n) ==
  IF n = 0 THEN {<<>>}
  ELSE {Append(l, f) : l \in ListingsOf(n - 1),
                       f \in FileNames} 

Distinct(l) == \A i, j \in 1..Len(l) : i # j => l[i] # l[j]

Listings == UNION {{l \in ListingsOf(n) : Distinct(l)} : n \in 0..MaxFiles}

Str(word) == <<QUOTE, word, QUOTE>>

\* {"PaperTitle": "X"}
TitleOnly == <<LBRACE>> \o Str("PaperTitle") \o <<COLON, SP>> \o Str("X") \o <<RBRACE>>

\* all six keys, AuthorContact a list of mappings
FullMetadata ==
  <<LBRACE>> \o Str("PaperTitle") \o <<COLON, SP>> \o Str("X") \o <<COMMA, SP>>
    \o Str("PublicationYear") \o <<COLON, SP>> \o Str("1") \o <<COMMA, SP>>
    \o Str("Authors") \o <<COLON, SP, LBRACK>> \o Str("A") \o <<RBRACK, COMMA, NL>>
    \o Str("AuthorContact") \o <<COLON, SP, LBRACK, LBRACE>> \o Str("Name")
    \o <<COLON, SP>> \o Str("A") \o <<RBRACE, RBRACK, COMMA, SP>>
    \o Str("Abstract") \o <<COLON, SP>> \o Str("Y") \o <<COMMA, SP>>
    \o Str("SummaryAbstract") \o <<COLON, SP>> \o Str("Y") \o <<RBRACE>>

\* {"AuthorContact": "X"}: AuthorContact is not a sequence of mappings
WrongShape == <<LBRACE>> \o Str("AuthorContact") \o <<COLON, SP>> \o Str("X") \o <<RBRACE>>

\* {"Abstract": "X ```Y"}: a fence inside a string value
TicksInString ==
  <<LBRACE>> \o Str("Abstract") \o <<COLON, SP, QUOTE, "X", SP, BT, BT, BT, "Y", QUOTE, RBRACE>>

\* {"Abstract": "{X}"}: braces inside a string value
BracesInString ==
  <<LBRACE>> \o Str("Abstract") \o <<COLON, SP, QUOTE, LBRACE, "X", RBRACE, QUOTE, RBRACE>>

JsonObjects == {TitleOnly, FullMetadata, WrongShape, TicksInString, BracesInString}

\* valid JSON that is not a non-empty object
JsonOthers ==
  {<<LBRACK>> \o Str("A") \o <<RBRACK>>, Str("X"), <<"1">>, <<"0">>, <<"true">>,
   <<LBRACK, RBRACK>>, <<LBRACE, RBRACE>>, <<QUOTE, QUOTE>>}

OpenFences ==
  {<<BT, BT, BT, "json", NL>>, <<BT, BT, BT, NL>>, <<BT, BT, BT, "json", SP, NL>>,
   <<NL, BT, BT, BT, "json">>, <<BT, BT, BT, "python", NL>>}

CloseFences == {<<NL, BT, BT, BT>>, <<BT, BT, BT, NL>>, <<SP, NL, BT, BT, BT, SP>>}

Fenced(J) == {open \o J \o close : open \in OpenFences, close \in CloseFences}

Prefixes ==
  {<<>>, <<"Sure", COMMA, SP, "here", COLON, SP>>, <<"Sure", SP, LBRACE, "x", RBRACE, SP>>,
   <<RBRACE, SP>>}

Suffixes == {<<>>, <<SP, "Hope", SP, "that", SP, "helps">>, <<SP, RBRACE>>, <<NL, LBRACE>>}

Wrapped(J) == {pre \o J \o suf : pre \in Prefixes, suf \in Suffixes}

\* neither JSON nor anything with a JSON object in it
Garbage ==
  {<<>>, <<SP>>, <<NL, SP, NL>>, <<"Sure">>, <<SP, "Sure", NL>>, <<LBRACE, "X">>,
   <<LBRACE, "X", RBRACE>>, <<BT, BT, BT, "json", NL, "Sure", NL, BT, BT, BT>>,
   <<NL, LBRACE>> \o Str("A") \o <<RBRACE, SP>>}

\* every raw text the response parsing is checked on
ParserTexts ==
  UNION {Fenced(J) \cup Wrapped(J) : J \in JsonObjects}
    \cup UNION {Fenced(J) : J \in JsonOthers}
    \cup JsonOthers \cup Garbage

\* the texts the backend answers with in a whole run of the main script
PipelineTexts ==
  {TitleOnly, <<BT, BT, BT, "json", NL>> \o TitleOnly \o <<NL, BT, BT, BT>>,
   <<NL, SP>>, <<"Sure">>}

Text(t) == [shape |-> "text", text |-> t]

\* a hosted response without usable content: None, no "choices", no choice, content None
Bodiless(v) ==
  IF v = "hosted"
    THEN {[shape |-> sh, text |-> <<>>] :
            sh \in {"none", "no_choices", "empty_choices", "null_content"}}
    ELSE {}

NoResponse == [shape |-> "none", text |-> <<>>]

\* "".join(generated_text) over the streamed chunks
RECURSIVE JoinFrom(_, _)
JoinFrom(chunks, i) ==
  IF i > Len(chunks) THEN <<>> ELSE chunks[i] \o JoinFrom(chunks, i + 1)

JoinChunks(chunks) == JoinFrom(chunks, 1)

\* the ways the local stream may cut a text into chunks
Chunkings(t) ==
  {<<t>>, <<SubSeq(t, 1, Len(t) \div 2), SubSeq(t, Len(t) \div 2 + 1, Len(t))>>}
    \cup (IF t = <<>> THEN {<<>>} ELSE {})

-----------------------------------------------------------------------------
(* State.                                                                  *)

VARIABLES
  variant,         \* which script runs: "hosted" or "local"
  listing,         \* os.listdir(directory_path)
  pc,              \* main script: "single", "dir", "done"
  idx,             \* process_directory: position in listing
  cur,             \* pdf_path of the running process_research_paper
  stage,           \* pipeline state of that run, "IDLE" between runs
  call,            \* position in extract_metadata
  attempt_number,  \* tenacity: number of the current attempt
  invocations,     \* how often the wrapped function has been entered
  failures,        \* how often it raised
  response,        \* what the retry-wrapped call returned
  metadata,        \* what extract_metadata returned
  console,         \* lines printed by extract_metadata in this run
  exit,            \* how the run left process_research_paper
  files,           \* output folder: name -> content
  runs             \* finished runs, oldest first

vars ==
  <<variant, listing, pc, idx, cur, stage, call, attempt_number, invocations,
    failures, response, metadata, console, exit, files, runs>>

retry_vars == <<attempt_number, invocations, failures>>

driver_vars == <<variant, listing, pc, idx, cur, runs>>

Terminal == {"PERSISTED", "SKIPPED"}

\* f with name set to content
Written(f, name, content) ==
  [n \in DOMAIN f \cup {name} |-> IF n = name THEN content ELSE f[n]]

NoFiles == [n \in {} |-> <<>>]

Init ==
  /\ variant \in Variants
  /\ listing \in Listings
  /\ pc = "single"
  /\ idx = 1
  /\ cur = <<>>
  /\ stage = "IDLE"
  /\ call = "idle"
  /\ attempt_number = 0
  /\ invocations = 0
  /\ failures = 0
  /\ response = NoResponse
  /\ metadata = EmptyResult
  /\ console = <<>>
  /\ exit = ""
  /\ files = NoFiles
  /\ runs = <<>>

-----------------------------------------------------------------------------
(* process_research_paper                                                  *)

\* entry: print("Processing research paper: ...")
StartPaper(pdf_path) ==
  /\ cur' = pdf_path
  /\ stage' = "START"
  /\ UNCHANGED <<call, retry_vars, response, metadata, console, exit, files>>

\* no handler: the exception leaves process_research_paper and ends the script
FailsUncaught(how) ==
  /\ stage' = "CRASHED"
  /\ exit' = how
  /\ call' = "idle"

\* an exception reaches "except Exception as e" of process_research_paper
Fails(how) ==
  /\ stage' = "SKIPPED"
  /\ exit' = how
  /\ call' = "idle"

\* extract_text_from_pdf returns: only a file that exists can be loaded
ExtractTextOk ==
  /\ stage = "START"
  /\ \E i \in 1..Len(listing) : listing[i] = cur
  /\ stage' = "TEXT_EXTRACTED"
  /\ call' = "prompt"
  /\ UNCHANGED <<driver_vars, retry_vars, response, metadata, console, exit, files>>

\* extract_text_from_pdf raises
ExtractTextFail ==
  /\ stage = "START"
  /\ Fails("error")
  /\ UNCHANGED <<driver_vars, retry_vars, response, metadata, console, files>>

\* extract_metadata builds the messages (hosted) or reads the prompt file (local)
\* and enters the retry-wrapped call
BuildPrompt ==
  /\ call = "prompt"
  /\ call' = "running"
  /\ attempt_number' = 1
  /\ invocations' = 0
  /\ failures' = 0
  /\ UNCHANGED <<driver_vars, stage, response, metadata, console, exit, files>>

\* read_prompt raises, outside the try of extract_metadata
ReadPromptFail ==
  /\ call = "prompt"
  /\ variant = "local"
  /\ Fails("error")
  /\ UNCHANGED <<driver_vars, retry_vars, response, metadata, console, files>>

\* an off-by-one stop condition: an eleventh attempt is made
StopAfterAttemptLate(n) == n > MaxAttemptNumber

\* stop_after_attempt(10)
StopAfterAttempt(n) == n >= MaxAttemptNumber

\* one attempt of the wrapped function that returns
AttemptReturn(Texts) ==
  /\ call = "running"
  /\ invocations' = invocations + 1
  /\ \/ \E r \in Bodiless(variant) : response' = r
     \/ \E t \in Texts : \E chunks \in Chunkings(t) :
          response' = Text(IF variant = "local" THEN JoinChunks(chunks) ELSE t)
  /\ call' = "returned"
  /\ UNCHANGED <<driver_vars, stage, attempt_number, failures, metadata, console, exit,
                 files>>

\* one attempt that raises: tenacity stops (RetryError) or waits and tries again
AttemptRaise ==
  /\ call = "running"
  /\ invocations' = invocations + 1
  /\ failures' = failures + 1
  /\ IF StopAfterAttempt(attempt_number)
       THEN call' = "raised" /\ UNCHANGED attempt_number
       ELSE attempt_number' = attempt_number + 1 /\ UNCHANGED call
  /\ UNCHANGED <<driver_vars, stage, response, metadata, console, exit, files>>

\* the retry-wrapped call has returned or raised
CallEnded == call \in {"returned", "raised"}

\* the rest of extract_metadata, then "if not metadata: return"
ParseResponse ==
  /\ CallEnded
  /\ LET out == ExtractMetadata(variant, call, response)
     IN /\ metadata' = out.ret
        /\ console' = out.console
        /\ IF NotMetadata(out.ret)
             THEN stage' = "SKIPPED" /\ exit' = "no_metadata"
             ELSE stage' = "METADATA_EXTRACTED" /\ UNCHANGED exit
  /\ call' = "idle"
  /\ UNCHANGED <<driver_vars, retry_vars, response, files>>

\* open(output_path, 'w') and json.dump(metadata, f, indent=2) succeed
SaveOk ==
  /\ stage = "METADATA_EXTRACTED"
  /\ files' = Written(files, OutputName(cur), JsonDump(metadata, 0))
  /\ stage' = "PERSISTED"
  /\ exit' = "saved"
  /\ UNCHANGED <<driver_vars, call, retry_vars, response, metadata, console>>

\* open raises (no output folder, no permission): nothing is written
SaveOpenFail ==
  /\ stage = "METADATA_EXTRACTED"
  /\ Fails("error")
  /\ UNCHANGED <<driver_vars, retry_vars, response, metadata, console, files>>

\* the write raises after open truncated the file: part of the text is on disk
SaveWriteFail ==
  /\ stage = "METADATA_EXTRACTED"
  /\ \E k \in {0, Len(JsonDump(metadata, 0)) \div 2} :
       files' = Written(files, OutputName(cur), SubSeq(JsonDump(metadata, 0), 1, k))
  /\ Fails("write_error")
  /\ UNCHANGED <<driver_vars, retry_vars, response, metadata, console>>

\* process_research_paper returns to its caller
Return ==
  /\ stage \in Terminal
  /\ runs' = Append(runs, [path |-> cur, result |-> stage])
  /\ stage' = "IDLE"
  /\ cur' = <<>>
  /\ pc' = IF pc = "single" THEN "dir" ELSE pc
  /\ call' = "idle"
  /\ attempt_number' = 0
  /\ invocations' = 0
  /\ failures' = 0
  /\ response' = NoResponse
  /\ metadata' = EmptyResult
  /\ console' = <<>>
  /\ exit' = ""
  /\ UNCHANGED <<variant, listing, idx, files>>

-----------------------------------------------------------------------------
(* The main script and process_directory                                   *)

\* process_research_paper(pdf_path, ...) on the example document
MainSingle ==
  /\ pc = "single"
  /\ stage = "IDLE"
  /\ StartPaper(MainPdf)
  /\ UNCHANGED <<variant, listing, pc, idx, runs>>

\* a listed name that passes the filter is processed
DirProcess ==
  /\ pc = "dir"
  /\ stage = "IDLE"
  /\ idx <= Len(listing)
  /\ IsPdf(listing[idx])
  /\ StartPaper(listing[idx])
  /\ idx' = idx + 1
  /\ UNCHANGED <<variant, listing, pc, runs>>

\* a listed name that does not pass the filter is ignored
DirIgnore ==
  /\ pc = "dir"
  /\ stage = "IDLE"
  /\ idx <= Len(listing)
  /\ ~IsPdf(listing[idx])
  /\ idx' = idx + 1
  /\ UNCHANGED <<variant, listing, pc, cur, runs, stage, call, retry_vars, response,
                 metadata, console, exit, files>>

\* the loop of process_directory ends, and with it the script
DirDone ==
  /\ pc = "dir"
  /\ stage = "IDLE"
  /\ idx > Len(listing)
  /\ pc' = "done"
  /\ UNCHANGED <<variant, listing, idx, cur, runs, stage, call, retry_vars, response,
                 metadata, console, exit, files>>

\* every step but the response parsing
OtherSteps ==
  \/ MainSingle
  \/ DirProcess
  \/ DirIgnore
  \/ DirDone
  \/ ExtractTextOk
  \/ ExtractTextFail
  \/ BuildPrompt
  \/ ReadPromptFail
  \/ AttemptReturn(PipelineTexts)
  \/ AttemptRaise
  \/ SaveOk
  \/ SaveOpenFail
  \/ SaveWriteFail
  \/ Return

Next == ParseResponse \/ OtherSteps

Spec == Init /\ [][Next]_vars

-----------------------------------------------------------------------------
(* The response parsing alone: the main script's first run, stopped where  *)
(* extract_metadata has entered the retry-wrapped call, answered with any  *)
(* text of ParserTexts.                                                    *)

ParseInit ==
  /\ variant \in Variants
  /\ listing = <<MainPdf>>
  /\ pc = "single"
  /\ idx = 1
  /\ cur = MainPdf
  /\ stage = "TEXT_EXTRACTED"
  /\ call = "running"
  /\ attempt_number = 1
  /\ invocations = 0
  /\ failures = 0
  /\ response = NoResponse
  /\ metadata = EmptyResult
  /\ console = <<>>
  /\ exit = ""
  /\ files = NoFiles
  /\ runs = <<>>

ParseNext ==
  \/ AttemptReturn(ParserTexts)
  \/ ParseResponse
  \/ SaveOk
  \/ SaveOpenFail
  \/ SaveWriteFail

ParseSpec == ParseInit /\ [][ParseNext]_vars

-----------------------------------------------------------------------------
(* Vocabulary of the properties, stated without the operators of the code. *)

\* the retry-wrapped call returned and extract_metadata has dealt with the answer
Parsed ==
  /\ call = "idle"
  /\ invocations = failures + 1
  /\ stage \in {"METADATA_EXTRACTED", "PERSISTED", "SKIPPED"}

\* an empty, whitespace-only or missing response
Blank(resp) ==
  resp.shape # "text" \/ \A i \in 1..Len(resp.text) : resp.text[i] \in Whitespace

IsEmptyResult(m) == m.kind = "dict" /\ Len(m.v) = 0

\* a name ending in .pdf, compared case-insensitively
PdfName(f) == Len(f) >= 2 /\ f[Len(f) - 1] = DOT /\ f[Len(f)] \in {"pdf", "PDF", "Pdf"}

\* the name with its extension replaced by json
ExpectedOutput(f) == SubSeq(f, 1, Len(f) - 1) \o <<"json">>

MatchingNames == {f \in {listing[i] : i \in 1..Len(listing)} : PdfName(f)}

\* the runs made by process_directory: all but the main script's first
DirectoryRuns == IF runs = <<>> THEN <<>> ELSE Tail(runs)

\* the paths handed to process_research_paper by process_directory so far
Started ==
  [i \in 1..Len(DirectoryRuns) |-> DirectoryRuns[i].path]
    \o (IF pc # "single" /\ stage # "IDLE" THEN <<cur>> ELSE <<>>)

RanPaths == {runs[i].path : i \in 1..Len(runs)}

LastRun(f) ==
  runs[CHOOSE i \in 1..Len(runs) :
         runs[i].path = f /\ \A j \in (i + 1)..Len(runs) : runs[j].path # f]

SixKeys ==
  {<<"PaperTitle">>, <<"PublicationYear">>, <<"Authors">>, <<"AuthorContact">>,
   <<"Abstract">>, <<"SummaryAbstract">>}

\* PaperMetadata(PaperTitle="X") with every other field at its default
TitleWithDefaults ==
  PyDict(<<<<<<"PaperTitle">>, PyStr(<<"X">>)>>, <<<<"PublicationYear">>, PyStr(<<>>)>>,
           <<<<"Authors">>, PyList(<<>>)>>, <<<<"AuthorContact">>, PyList(<<>>)>>,
           <<<<"Abstract">>, PyStr(<<>>)>>, <<<<"SummaryAbstract">>, PyStr(<<>>)>>>>)

\* a field of the PaperMetadata shape
FieldOk(k, val) ==
  CASE k \in {<<"PaperTitle">>, <<"PublicationYear">>, <<"Abstract">>, <<"SummaryAbstract">>} ->
         val.kind = "str"
    [] k = <<"Authors">> ->
         val.kind = "list" /\ \A i \in 1..Len(val.v) : val.v[i].kind = "str"
    [] k = <<"AuthorContact">> ->
         val.kind = "list" /\ \A i \in 1..Len(val.v) : val.v[i].kind = "dict"
    [] OTHER -> TRUE

ShapeOk(m) == \A i \in 1..Len(m.v) : FieldOk(m.v[i][1], m.v[i][2])

\* the text printed after "Raw response", if any
RawLines == {i \in 1..Len(console) : console[i].msg = "Raw response"}

-----------------------------------------------------------------------------
(* Properties.                                                             *)

\* C1: a retry-wrapped call that returns does so on the attempt right after
\* its last failure, with fewer than 10 failures before it; one that raises
\* has made exactly 10 attempts, all failed; no 11th attempt is ever made.
C1_RetryAttempts ==
  /\ invocations <= 10
  /\ call = "running" => invocations = failures /\ failures < 10
  /\ call = "returned" => invocations = failures + 1 /\ failures < 10
  /\ call = "raised" => invocations = 10 /\ failures = 10

\* the call succeeds on its tenth attempt, after nine failures
C1_Witness == call = "returned" /\ failures = 9 /\ invocations = 10

\* C2: the result for a JSON text wrapped in a markdown fence equals the
\* result for the same JSON text unwrapped, in both variants.
C2_FencedAsUnwrapped ==
  \A J \in JsonObjects \cup JsonOthers :
    \A R \in Fenced(J) :
      Parsed /\ response = Text(R)
        => ValEq(metadata, ExtractMetadata(variant, "returned", Text(J)).ret)

\* C3: for prose + J + prose with J a JSON object, the result is the object J.
C3_ObjectInProse ==
  \A J \in JsonObjects :
    \A R \in Wrapped(J) :
      Parsed /\ response = Text(R) => ValEq(metadata, JsonLoads(J).val)

\* C4: a parsed object has all six PaperMetadata keys, the missing ones at
\* their defaults, and so has the artifact persisted from it.
C4_MissingKeysDefault ==
  Parsed /\ stage # "SKIPPED" /\ metadata.kind = "dict"
    => /\ SixKeys \subseteq DictKeys(metadata)
       /\ response = Text(TitleOnly) => ValEq(metadata, TitleWithDefaults)
       /\ stage = "PERSISTED"
            => SixKeys \subseteq DictKeys(JsonLoads(files[ExpectedOutput(cur)]).val)

\* C5: a non-blank response that is not JSON, and whose first-{-to-last-}
\* substring is not JSON either, gives the empty result, and the raw text
\* printed for diagnosis is the response exactly as the backend returned it.
C5_RawTextLogged ==
  ( /\ Parsed
    /\ ~Blank(response)
    /\ ~JsonLoads(response.text).ok
    /\ ~JsonLoads(BraceSearch(response.text).text).ok )
    => /\ IsEmptyResult(metadata)
       /\ RawLines # {}
       /\ \A i \in RawLines : console[i].text = response.text

\* C6: an empty, whitespace-only or missing response makes extract_metadata
\* return the empty result without raising; the run is skipped through the
\* "no metadata" exit and writes no output file.
C6_BlankResponseSkipped ==
  Parsed /\ Blank(response)
    => /\ IsEmptyResult(metadata)
       /\ stage = "SKIPPED"
       /\ exit = "no_metadata"
       /\ ExpectedOutput(cur) \notin DOMAIN files

\* the local backend answered with whitespace only
C6_Witness ==
  Parsed /\ variant = "local" /\ response = Text(<<NL, SP, NL>>) /\ stage = "SKIPPED"

\* C7: process_directory hands the matching names to process_research_paper
\* one at a time in listing order, every run ends PERSISTED or SKIPPED, the
\* script can always go on until it is done, and then every matching name
\* has been processed, whatever failed on the way.
C7_BatchContinues ==
  /\ pc = "done" \/ CallEnded \/ ENABLED OtherSteps
  /\ pc # "single" => Started = SelectSeq(SubSeq(listing, 1, idx - 1), PdfName)
  /\ \A i \in 1..Len(runs) : runs[i].result \in Terminal
  /\ pc = "done" => idx = Len(listing) + 1 /\ stage = "IDLE"

\* the batch is done, and a document was persisted after an earlier one failed
C7_Witness ==
  /\ pc = "done"
  /\ Len(runs) >= 3
  /\ runs[2].result = "SKIPPED"
  /\ runs[3].result = "PERSISTED"

\* the directory has been processed and every document in it was persisted
AllPersisted ==
  pc = "done" /\ \A i \in 1..Len(DirectoryRuns) : DirectoryRuns[i].result = "PERSISTED"

C9_ArtifactIsObject ==
  stage = "PERSISTED"
    => LET artifact == JsonLoads(files[ExpectedOutput(cur)])
       IN /\ artifact.ok
          /\ artifact.val.kind = "dict"
          /\ variant = "hosted" => ShapeOk(artifact.val)

\* C10 as stated, its part about files: between runs, a document that has
\* been run has an output file exactly if its latest run ended PERSISTED.
C10_FileIffPersisted ==
  stage = "IDLE"
    => \A f \in RanPaths :
         ExpectedOutput(f) \in DOMAIN files <=> LastRun(f).result = "PERSISTED"

====
